---- MODULE Spec2Model ----
(***************************************************************************)
(* Model of the file gateway of backend/server.js: the four routes         *)
(* /upload, /create, /edit and /delete acting on a POSIX file tree.        *)
(*                                                                         *)
(* A path is the sequence of its segments: "a/../../x" is                  *)
(* <<"a", "..", "..", "x">>, "/etc/passwd" is <<"", "etc", "passwd">> and  *)
(* the empty string is <<"">>.  An absolute normalized path is the         *)
(* sequence of directory names from the file-system root, so "/" is <<>>.  *)
(* A file's content is the sequence of its bytes.                          *)
(***************************************************************************)
EXTENDS Integers, Sequences, FiniteSets, TLC

VARIABLES fs, last, sc, conc, ui

vars == <<fs, last, sc, conc, ui>>

(* ------------------------------------------------------------------ *)
(* Bounds and input sets                                               *)
(* ------------------------------------------------------------------ *)

\* Longest upload batch that is enumerated.
MaxBatch == 2

\* Bodies sent by clients: empty, one byte, two other bytes.
Contents == {<<>>, <<1>>, <<2, 3>>}

\* Content of /etc/passwd before the server starts.
PasswdData == <<7>>

\* The `filename` strings of /create, /edit and /delete bodies.
Filenames ==
    { <<"a">>,                          \* a
      <<"b">>,                          \* b
      <<".">>,                          \* .
      <<"a", "..", "b">>,               \* a/../b
      <<"a", "x">>,                     \* a/x
      <<"sub", "a">>,                   \* sub/a
      <<"">>,                           \* the empty string
      <<"", "etc", "passwd">>,          \* /etc/passwd
      <<"..", "..", "etc", "passwd">>,  \* ../../etc/passwd
      <<"a", "..", "..", "x">> }        \* a/../../x

\* The value of a `filename` the JSON body does not carry.  A filename that
\* is a string has at least one segment, so <<>> is none of them.
Undefined == <<>>

\* The value of a `content` the JSON body does not carry.
UndefinedContent == <<-1>>

\* What req.body can hold as filename and as content.
BodyFilenames == Filenames \cup {Undefined}
BodyContents == Contents \cup {UndefinedContent}

\* The file parts of multipart /upload bodies: filename and bytes.
\* a = <<1>>, sub/a = <<2, 3>> and ../b = <<1>>.
Entries ==
    { [name |-> <<"a">>, bytes |-> <<1>>],
      [name |-> <<"sub", "a">>, bytes |-> <<2, 3>>],
      [name |-> <<"..", "b">>, bytes |-> <<1>>] }

\* Outcome the environment imposes on one write or unlink: none, or the
\* process lacks the permission.
IOOutcomes == {"ok", "EACCES"}

(* ------------------------------------------------------------------ *)
(* The file tree                                                       *)
(* ------------------------------------------------------------------ *)

None == [kind |-> "none", data |-> <<>>]
Dir == [kind |-> "dir", data |-> <<>>]
File(d) == [kind |-> "file", data |-> d]

\* What the tree f holds at the absolute path p.
Node(f, p) == IF p \in DOMAIN f THEN f[p] ELSE None

\* path.join(__dirname, 'user_files') with __dirname = /app.
BASE_DIR == <<"app", "user_files">>

\* The disk before the process starts, with and without the storage root.
DiskWithoutRoot ==
    ( <<>> :> Dir ) @@ ( <<"app">> :> Dir ) @@ ( <<"etc">> :> Dir )
        @@ ( <<"etc", "passwd">> :> File(PasswdData) )

DiskWithRoot == DiskWithoutRoot @@ ( BASE_DIR :> Dir )

\* if (!fs.existsSync(BASE_DIR)) fs.mkdirSync(BASE_DIR)
Startup(disk) ==
    IF Node(disk, BASE_DIR).kind = "none"
    THEN disk @@ ( BASE_DIR :> Dir )
    ELSE disk

(* ------------------------------------------------------------------ *)
(* path.join                                                           *)
(* ------------------------------------------------------------------ *)

\* POSIX normalization of the absolute path whose segments are segs:
\* empty and "." segments vanish, ".." removes the segment before it and
\* is dropped at the root.
RECURSIVE Normalize(_, _)
Normalize(acc, segs) ==
    IF segs = <<>> THEN acc
    ELSE LET s == Head(segs)
             acc2 == IF s = "" \/ s = "." THEN acc
                     ELSE IF s = ".."
                          THEN (IF acc = <<>> THEN acc
                                ELSE SubSeq(acc, 1, Len(acc) - 1))
                          ELSE Append(acc, s)
         IN  Normalize(acc2, Tail(segs))

\* path.join(base, filename) for an absolute base.
PathJoin(base, filename) == Normalize(<<>>, base \o filename)

\* p is root or lies beneath it.
IsInside(root, p) ==
    /\ Len(p) >= Len(root)
    /\ SubSeq(p, 1, Len(root)) = root

(* ------------------------------------------------------------------ *)
(* fs.writeFile and fs.unlink                                          *)
(* ------------------------------------------------------------------ *)

\* Error of resolving the directories that lead to p: the first ancestor
\* that is no directory is missing (ENOENT) or a regular file (ENOTDIR).
PathError(f, p) ==
    LET bad == {i \in 0..(Len(p) - 1) : Node(f, SubSeq(p, 1, i)).kind # "dir"}
    IN  IF bad = {} THEN ""
        ELSE LET i == CHOOSE j \in bad : \A k \in bad : j <= k
             IN  IF Node(f, SubSeq(p, 1, i)).kind = "none"
                 THEN "ENOENT" ELSE "ENOTDIR"

\* Faulty variant of WriteFile: flag 'a', the data is appended to what the
\* file holds.
WriteFileAppend(f, p, data, io) ==
    LET e == PathError(f, p)
    IN  IF e # "" THEN [fs |-> f, err |-> e]
        ELSE IF Node(f, p).kind = "dir" THEN [fs |-> f, err |-> "EISDIR"]
        ELSE IF io # "ok" THEN [fs |-> f, err |-> io]
        ELSE [fs |-> [q \in (DOMAIN f) \cup {p} |->
                         IF q = p THEN File(Node(f, p).data \o data) ELSE f[q]],
              err |-> ""]

\* Faulty variant of WriteFile: flag 'r+' on an existing file, the data
\* overwrites the first bytes and the rest of the old content stays.
WriteFileNoTruncate(f, p, data, io) ==
    LET e == PathError(f, p)
        old == Node(f, p).data
    IN  IF e # "" THEN [fs |-> f, err |-> e]
        ELSE IF Node(f, p).kind = "dir" THEN [fs |-> f, err |-> "EISDIR"]
        ELSE IF io # "ok" THEN [fs |-> f, err |-> io]
        ELSE [fs |-> [q \in (DOMAIN f) \cup {p} |->
                         IF q = p
                         THEN File(data \o SubSeq(old, Len(data) + 1, Len(old)))
                         ELSE f[q]],
              err |-> ""]

\* fs.writeFile(p, data, cb) with the default flag 'w': the file is created
\* if absent, truncated if present, and then holds exactly data.  err = ""
\* is the callback's null error.
WriteFile(f, p, data, io) ==
    LET e == PathError(f, p)
    IN  IF e # "" THEN [fs |-> f, err |-> e]
        ELSE IF Node(f, p).kind = "dir" THEN [fs |-> f, err |-> "EISDIR"]
        ELSE IF io # "ok" THEN [fs |-> f, err |-> io]
        ELSE [fs |-> [q \in (DOMAIN f) \cup {p} |->
                         IF q = p THEN File(data) ELSE f[q]],
              err |-> ""]

\* Faulty variant of Unlink: fs.rm with recursive, a directory goes with all
\* it holds.
UnlinkRecursive(f, p, io) ==
    LET e == PathError(f, p)
    IN  IF e # "" THEN [fs |-> f, err |-> e]
        ELSE IF Node(f, p).kind = "none" THEN [fs |-> f, err |-> "ENOENT"]
        ELSE IF io # "ok" THEN [fs |-> f, err |-> io]
        ELSE [fs |-> [q \in {r \in DOMAIN f : ~IsInside(p, r)} |-> f[q]],
              err |-> ""]

\* Faulty variant of Unlink: a directory is reported like a missing file.
UnlinkDirAsMissing(f, p, io) ==
    LET e == PathError(f, p)
    IN  IF e # "" THEN [fs |-> f, err |-> e]
        ELSE IF Node(f, p).kind # "file" THEN [fs |-> f, err |-> "ENOENT"]
        ELSE IF io # "ok" THEN [fs |-> f, err |-> io]
        ELSE [fs |-> [q \in (DOMAIN f) \ {p} |-> f[q]], err |-> ""]

\* fs.unlink(p, cb): removes the directory entry of a file.
Unlink(f, p, io) ==
    LET e == PathError(f, p)
    IN  IF e # "" THEN [fs |-> f, err |-> e]
        ELSE IF Node(f, p).kind = "none" THEN [fs |-> f, err |-> "ENOENT"]
        ELSE IF Node(f, p).kind = "dir" THEN [fs |-> f, err |-> "EISDIR"]
        ELSE IF io # "ok" THEN [fs |-> f, err |-> io]
        ELSE [fs |-> [q \in (DOMAIN f) \ {p} |-> f[q]], err |-> ""]

(* ------------------------------------------------------------------ *)
(* Responses                                                           *)
(* ------------------------------------------------------------------ *)

\* res.json({ message }) with the default status.
JsonMessage(text) == [status |-> 200, kind |-> "message", text |-> text]

\* res.status(500).json({ error: err.message }); the message is
\* represented by the error code it starts with.
JsonError(code) == [status |-> 500, kind |-> "error", text |-> code]

\* The framework's answer to an error passed on by a middleware: status
\* 500 and a body that is no JSON object of the gateway.
DefaultError(code) == [status |-> 500, kind |-> "html", text |-> code]

\* What a handler leaves behind: the tree, the response and the paths it
\* handed to fs calls.
Outcome(f, res, paths) == [fs |-> f, res |-> res, paths |-> paths]

\* The handler threw before any file-system work: path.join throws a
\* TypeError on a filename that is no string, and fs.writeFile on data that
\* is undefined.  The router catches what a handler throws and the
\* framework answers like for any error passed on.
Thrown(f) == Outcome(f, DefaultError("TypeError"), {})

(* ------------------------------------------------------------------ *)
(* Route handlers                                                      *)
(* ------------------------------------------------------------------ *)

\* Faulty variant of Create: flag 'wx', a file that exists is not
\* overwritten.
CreateExclusive(f, filename, content, io) ==
    LET filePath == PathJoin(BASE_DIR, filename)
        w == WriteFile(f, filePath, content, io)
    IN  IF filename = Undefined \/ content = UndefinedContent THEN Thrown(f)
        ELSE IF w.err = "" /\ Node(f, filePath).kind = "file"
        THEN Outcome(f, JsonError("EEXIST"), {filePath})
        ELSE IF w.err # ""
        THEN Outcome(w.fs, JsonError(w.err), {filePath})
        ELSE Outcome(w.fs, JsonMessage("File created successfully!"), {filePath})

\* Faulty variant of Create: the callback does not look at err.
CreateIgnoresErr(f, filename, content, io) ==
    LET filePath == PathJoin(BASE_DIR, filename)
        w == WriteFile(f, filePath, content, io)
    IN  IF filename = Undefined \/ content = UndefinedContent THEN Thrown(f)
        ELSE Outcome(w.fs, JsonMessage("File created successfully!"), {filePath})

\* app.post('/create')
Create(f, filename, content, io) ==
    LET filePath == PathJoin(BASE_DIR, filename)
        w == WriteFile(f, filePath, content, io)
    IN  IF filename = Undefined \/ content = UndefinedContent THEN Thrown(f)
        ELSE IF w.err # ""
        THEN Outcome(w.fs, JsonError(w.err), {filePath})
        ELSE Outcome(w.fs, JsonMessage("File created successfully!"), {filePath})

\* Faulty variant of Edit: a file that does not exist is not created.
EditStrict(f, filename, content, io) ==
    LET filePath == PathJoin(BASE_DIR, filename)
        w == WriteFile(f, filePath, content, io)
    IN  IF Node(f, filePath).kind = "none"
        THEN Outcome(f, JsonError("ENOENT"), {filePath})
        ELSE IF w.err # ""
        THEN Outcome(w.fs, JsonError(w.err), {filePath})
        ELSE Outcome(w.fs, JsonMessage("File edited successfully!"), {filePath})

\* app.post('/edit')
Edit(f, filename, content, io) ==
    LET filePath == PathJoin(BASE_DIR, filename)
        w == WriteFile(f, filePath, content, io)
    IN  IF filename = Undefined \/ content = UndefinedContent THEN Thrown(f)
        ELSE IF w.err # ""
        THEN Outcome(w.fs, JsonError(w.err), {filePath})
        ELSE Outcome(w.fs, JsonMessage("File edited successfully!"), {filePath})

\* Faulty variant of Delete: a missing file counts as deleted.
DeleteForce(f, filename, io) ==
    LET filePath == PathJoin(BASE_DIR, filename)
        u == Unlink(f, filePath, io)
    IN  IF u.err # "" /\ u.err # "ENOENT"
        THEN Outcome(u.fs, JsonError(u.err), {filePath})
        ELSE Outcome(u.fs, JsonMessage("File deleted successfully!"), {filePath})

\* app.post('/delete')
Delete(f, filename, io) ==
    LET filePath == PathJoin(BASE_DIR, filename)
        u == Unlink(f, filePath, io)
    IN  IF filename = Undefined THEN Thrown(f)
        ELSE IF u.err # ""
        THEN Outcome(u.fs, JsonError(u.err), {filePath})
        ELSE Outcome(u.fs, JsonMessage("File deleted successfully!"), {filePath})

\* file.originalname of a file part whose filename is raw.  The multipart
\* parser behind upload.array('files') is constructed without preservePath
\* (multer({ storage })), so it reports the last component of the filename
\* the client sent.
originalname(raw) == raw[Len(raw)]

\* Faulty variant of FinalPath: the filename callback answers
\* file.fieldname, which is 'files' for every part.
FinalPathFieldname(raw) == PathJoin(BASE_DIR, <<"files">>)

\* The disk storage's destination and filename callbacks: the file part is
\* stored at path.join(BASE_DIR, file.originalname).
FinalPath(raw) == PathJoin(BASE_DIR, <<originalname(raw)>>)

\* The tree without the files at the paths in stored: what the upload
\* middleware does with the files it has stored once a later one fails.
RemoveUploaded(f, stored) ==
    [q \in (DOMAIN f) \ {p \in stored : Node(f, p).kind = "file"} |-> f[q]]

\* upload.array('files') on the file parts batch[i..], in the order of the
\* body; failAt is the part whose write the environment refuses (0: none).
\* A failed write ends the request with the error and the handler does not
\* run.
RECURSIVE StoreFiles(_, _, _, _, _)
StoreFiles(f, batch, i, failAt, stored) ==
    IF i > Len(batch)
    THEN Outcome(f, JsonMessage("Files uploaded successfully!"), stored)
    ELSE LET finalPath == FinalPath(batch[i].name)
             w == WriteFile(f, finalPath, batch[i].bytes,
                            IF i = failAt THEN "EACCES" ELSE "ok")
         IN  IF w.err # ""
             THEN Outcome(RemoveUploaded(w.fs, stored), DefaultError(w.err),
                          stored \cup {finalPath})
             ELSE StoreFiles(w.fs, batch, i + 1, failAt, stored \cup {finalPath})

\* app.post('/upload', upload.array('files'), handler)
Upload(f, batch, failAt) == StoreFiles(f, batch, 1, failAt, {})

(* ------------------------------------------------------------------ *)
(* State, requests and the specification                               *)
(* ------------------------------------------------------------------ *)

\* The non-empty upload batches of at most MaxBatch parts.
Batches == UNION {[1..n -> Entries] : n \in 1..MaxBatch}

\* The request handled last: what was asked, the tree before it, and what
\* the handler answered and touched.
Handled(op, filename, content, batch, before, o) ==
    [op |-> op, filename |-> filename, content |-> content, batch |-> batch,
     before |-> before, res |-> o.res, paths |-> o.paths]

NoRequest ==
    [op |-> "none", filename |-> <<"">>, content |-> <<>>, batch |-> <<>>,
     before |-> <<>>, res |-> [status |-> 0, kind |-> "none", text |-> ""],
     paths |-> {}]

\* The scripted client is not running.
Idle == [step |-> 0, f |-> <<"">>, c1 |-> <<>>, c2 |-> <<>>, obs |-> <<>>]

\* The browser form has no action under way.
NoAction == [stage |-> "idle", op |-> "none", net |-> "ok", alerts |-> <<>>]

\* No requests are handled concurrently.
NoConcurrent == [before |-> <<>>, reqs |-> <<>>, done |-> <<>>]

Init ==
    /\ fs \in {Startup(DiskWithoutRoot), Startup(DiskWithRoot)}
    /\ last = NoRequest
    /\ sc = Idle
    /\ conc = NoConcurrent
    /\ ui = NoAction

\* The client of this specification has one request outstanding at a time
\* (each handler of the browser form awaits its request): a request is
\* sent when none is outstanding, and Receive ends it.
ClientIdle == last = NoRequest

PostCreate ==
    /\ ClientIdle
    /\ \E filename \in BodyFilenames, content \in BodyContents, io \in IOOutcomes :
        LET o == Create(fs, filename, content, io)
        IN  /\ fs' = o.fs
            /\ last' = Handled("create", filename, content, <<>>, fs, o)
            /\ UNCHANGED <<sc, conc, ui>>

PostEdit ==
    /\ ClientIdle
    /\ \E filename \in BodyFilenames, content \in BodyContents, io \in IOOutcomes :
        LET o == Edit(fs, filename, content, io)
        IN  /\ fs' = o.fs
            /\ last' = Handled("edit", filename, content, <<>>, fs, o)
            /\ UNCHANGED <<sc, conc, ui>>

PostDelete ==
    /\ ClientIdle
    /\ \E filename \in BodyFilenames, io \in IOOutcomes :
        LET o == Delete(fs, filename, io)
        IN  /\ fs' = o.fs
            /\ last' = Handled("delete", filename, <<>>, <<>>, fs, o)
            /\ UNCHANGED <<sc, conc, ui>>

PostUpload ==
    /\ ClientIdle
    /\ \E batch \in Batches :
        \E failAt \in 0..Len(batch) :
            LET o == Upload(fs, batch, failAt)
            IN  /\ fs' = o.fs
                /\ last' = Handled("upload", <<"">>, <<>>, batch, fs, o)
                /\ UNCHANGED <<sc, conc, ui>>

\* The awaited request settles at the client.
Receive ==
    /\ last # NoRequest
    /\ last' = NoRequest
    /\ UNCHANGED <<fs, sc, conc, ui>>

Next == PostCreate \/ PostEdit \/ PostDelete \/ PostUpload \/ Receive

Spec == Init /\ [][Next]_vars

(* ------------------------------------------------------------------ *)
(* A scripted client: Create, Edit, Delete, Delete on one filename      *)
(* ------------------------------------------------------------------ *)

\* What a file slot can hold.
Slots == {None} \cup {File(c) : c \in Contents}

\* The trees the gateway can leave behind: the directories of the disk and
\* any files at the four places the enumerated filenames resolve to.
StoreOf(a, b, x, pw) ==
    LET placed == ( (BASE_DIR \o <<"a">>) :> a ) @@ ( (BASE_DIR \o <<"b">>) :> b )
                      @@ ( <<"app", "x">> :> x ) @@ ( <<"etc", "passwd">> :> pw )
        dirs == [q \in {<<>>, <<"app">>, <<"etc">>, BASE_DIR} |-> Dir]
    IN  [q \in {p \in DOMAIN placed : placed[p].kind = "file"} |-> placed[q]] @@ dirs

Stores ==
    { StoreOf(a, b, x, pw) :
        a \in Slots, b \in Slots, x \in Slots,
        pw \in Slots \cup {File(PasswdData)} }

\* What the scripted client sees after a step: the response and what the
\* tree then holds at the path its filename resolves to.
Observed(o, f) == [res |-> o.res, node |-> Node(o.fs, PathJoin(BASE_DIR, f))]

InitScenario ==
    /\ fs \in Stores
    /\ last = NoRequest
    /\ sc \in [step : {0}, f : Filenames, c1 : Contents, c2 : Contents, obs : {<<>>}]
    /\ conc = NoConcurrent
    /\ ui = NoAction

\* Each step is sent when the previous one has been answered; the
\* environment refuses nothing during the script.
ScCreate ==
    /\ sc.step = 0
    /\ LET o == Create(fs, sc.f, sc.c1, "ok")
       IN  /\ fs' = o.fs
           /\ last' = Handled("create", sc.f, sc.c1, <<>>, fs, o)
           /\ sc' = [sc EXCEPT !.step = 1, !.obs = Append(@, Observed(o, sc.f))]
           /\ UNCHANGED <<conc, ui>>

ScEdit ==
    /\ sc.step = 1
    /\ LET o == Edit(fs, sc.f, sc.c2, "ok")
       IN  /\ fs' = o.fs
           /\ last' = Handled("edit", sc.f, sc.c2, <<>>, fs, o)
           /\ sc' = [sc EXCEPT !.step = 2, !.obs = Append(@, Observed(o, sc.f))]
           /\ UNCHANGED <<conc, ui>>

ScDelete ==
    /\ sc.step = 2
    /\ LET o == Delete(fs, sc.f, "ok")
       IN  /\ fs' = o.fs
           /\ last' = Handled("delete", sc.f, <<>>, <<>>, fs, o)
           /\ sc' = [sc EXCEPT !.step = 3, !.obs = Append(@, Observed(o, sc.f))]
           /\ UNCHANGED <<conc, ui>>

ScDeleteAgain ==
    /\ sc.step = 3
    /\ LET o == Delete(fs, sc.f, "ok")
       IN  /\ fs' = o.fs
           /\ last' = Handled("delete", sc.f, <<>>, <<>>, fs, o)
           /\ sc' = [sc EXCEPT !.step = 4, !.obs = Append(@, Observed(o, sc.f))]
           /\ UNCHANGED <<conc, ui>>

NextScenario == ScCreate \/ ScEdit \/ ScDelete \/ ScDeleteAgain

SpecScenario == InitScenario /\ [][NextScenario]_vars

\* Every tree the gateway reaches is one of Stores.
StoresCoverReachable == fs \in Stores

(* ------------------------------------------------------------------ *)
(* Requests in flight together                                         *)
(* ------------------------------------------------------------------ *)

\* The requests the server may have in flight at once.
MaxInflight == 2

ConcFilenames == {<<"a">>, <<"b">>, <<"a", "x">>}
ConcContents == {<<1>>, <<2, 3>>}

\* The trees the concurrent requests start from.
ConcTrees ==
    { Startup(DiskWithRoot),
      ( (BASE_DIR \o <<"a">>) :> File(<<2, 3>>) ) @@ Startup(DiskWithRoot) }

\* Faulty variant of OpenTruncate: flag 'r+' on an existing file, what it
\* holds is kept.
OpenKeep(f, p) ==
    LET e == PathError(f, p)
    IN  IF e # "" THEN [fs |-> f, err |-> e]
        ELSE IF Node(f, p).kind = "dir" THEN [fs |-> f, err |-> "EISDIR"]
        ELSE [fs |-> [q \in (DOMAIN f) \cup {p} |->
                         IF q = p /\ Node(f, p).kind = "none"
                         THEN File(<<>>) ELSE f[q]],
              err |-> ""]

\* fs.writeFile is not one step of the file system: it opens the path with
\* flag 'w', which creates the file or truncates it, ...
OpenTruncate(f, p) ==
    LET e == PathError(f, p)
    IN  IF e # "" THEN [fs |-> f, err |-> e]
        ELSE IF Node(f, p).kind = "dir" THEN [fs |-> f, err |-> "EISDIR"]
        ELSE [fs |-> [q \in (DOMAIN f) \cup {p} |->
                         IF q = p THEN File(<<>>) ELSE f[q]],
              err |-> ""]

\* ... then writes data through its own descriptor, whose position starts
\* at 0: what the file holds beyond the data stays ...
WriteAt(old, data) == data \o SubSeq(old, Len(data) + 1, Len(old))

\* ... and closes the descriptor before the callback is called.  A request
\* in flight: what was asked, the path handed to the fs call, how far the
\* call has come, whether the file it holds open has been unlinked
\* meanwhile, the call's error, the response, and every response the
\* server has sent for the request.
InFlight(op, filename, content) ==
    [op |-> op, filename |-> filename, content |-> content,
     path |-> PathJoin(BASE_DIR, filename), stage |-> "queued",
     detached |-> FALSE, err |-> "", res |-> NoRequest.res, sent |-> <<>>]

\* The text of the route's success message.
SuccessText(op) ==
    IF op = "create" THEN "File created successfully!"
    ELSE IF op = "edit" THEN "File edited successfully!"
    ELSE "File deleted successfully!"

\* Faulty variant of CallbackSends: the error branch does not return, and
\* the success response is sent after the error response.
CallbackSendsBoth(op, err) ==
    IF err # "" THEN <<JsonError(err), JsonMessage(SuccessText(op))>>
    ELSE <<JsonMessage(SuccessText(op))>>

\* The responses the callback sends, in order: the error branch returns
\* after its response, so the success response is sent on no error only.
CallbackSends(op, err) ==
    IF err # "" THEN <<JsonError(err)>>
    ELSE <<JsonMessage(SuccessText(op))>>

\* (err) => { if (err) return res.status(500).json({ error: err.message });
\*            res.json({ message }) }
CallbackResponse(op, err) ==
    IF err # "" THEN JsonError(err) ELSE JsonMessage(SuccessText(op))

InitConcurrent ==
    /\ fs \in ConcTrees
    /\ last = NoRequest
    /\ sc = Idle
    /\ conc = [before |-> fs, reqs |-> <<>>, done |-> <<>>]
    /\ ui = NoAction

\* A route handler runs: it resolves the path and hands it to the fs call,
\* which is carried out later; the handler returns at once.
ConcPost ==
    /\ Len(conc.reqs) < MaxInflight
    /\ \E op \in {"create", "edit", "delete"}, filename \in ConcFilenames,
          content \in ConcContents :
          /\ op = "delete" => content = <<1>>
          /\ conc' = [conc EXCEPT !.reqs = Append(@, InFlight(op, filename, content))]
    /\ UNCHANGED <<fs, last, sc, ui>>

\* The open of a writeFile.
ConcOpen(i) ==
    /\ conc.reqs[i].stage = "queued"
    /\ conc.reqs[i].op \in {"create", "edit"}
    /\ LET o == OpenTruncate(fs, conc.reqs[i].path)
       IN  /\ fs' = o.fs
           /\ conc' = [conc EXCEPT !.reqs[i].err = o.err,
                                   !.reqs[i].stage =
                                       IF o.err = "" THEN "open" ELSE "settled"]
    /\ UNCHANGED <<last, sc, ui>>

\* The write of a writeFile; it reaches the tree unless the file has been
\* unlinked since it was opened.
ConcWrite(i) ==
    /\ conc.reqs[i].stage = "open"
    /\ LET r == conc.reqs[i]
       IN  fs' = IF r.detached THEN fs
                 ELSE [fs EXCEPT ![r.path] = File(WriteAt(@.data, r.content))]
    /\ conc' = [conc EXCEPT !.reqs[i].stage = "settled"]
    /\ UNCHANGED <<last, sc, ui>>

\* The unlink of a /delete; descriptors open on the file keep it, without
\* a name.
ConcUnlink(i) ==
    /\ conc.reqs[i].stage = "queued"
    /\ conc.reqs[i].op = "delete"
    /\ LET p == conc.reqs[i].path
           u == Unlink(fs, p, "ok")
       IN  /\ fs' = u.fs
           /\ conc' = [conc EXCEPT
                  !.reqs = [j \in DOMAIN @ |->
                      IF j = i
                      THEN [@[j] EXCEPT !.err = u.err, !.stage = "settled"]
                      ELSE IF u.err = "" /\ @[j].stage = "open" /\ @[j].path = p
                      THEN [@[j] EXCEPT !.detached = TRUE]
                      ELSE @[j]]]
    /\ UNCHANGED <<last, sc, ui>>

\* Faulty variant of ConcCallback: the success response is sent right after
\* the fs call, outside its callback, when the file has only been opened.
ConcCallbackEarly(i) ==
    /\ conc.reqs[i].stage = "open"
    /\ conc' = [conc EXCEPT
           !.reqs[i].stage = "answered",
           !.reqs[i].res = CallbackResponse(conc.reqs[i].op, ""),
           !.reqs[i].sent = CallbackSends(conc.reqs[i].op, ""),
           !.done = Append(@, i)]
    /\ UNCHANGED <<fs, last, sc, ui>>

\* Faulty variant of ConcCallback: if (err) return; the request whose fs
\* call failed is not answered.
ConcCallbackOnSuccess(i) ==
    /\ conc.reqs[i].stage = "settled"
    /\ conc.reqs[i].err = ""
    /\ conc' = [conc EXCEPT
           !.reqs[i].stage = "answered",
           !.reqs[i].res = CallbackResponse(conc.reqs[i].op, conc.reqs[i].err),
           !.reqs[i].sent = CallbackSends(conc.reqs[i].op, conc.reqs[i].err),
           !.done = Append(@, i)]
    /\ UNCHANGED <<fs, last, sc, ui>>

\* The callback of the fs call answers the request.
ConcCallback(i) ==
    /\ conc.reqs[i].stage = "settled"
    /\ conc' = [conc EXCEPT
           !.reqs[i].stage = "answered",
           !.reqs[i].res = CallbackResponse(conc.reqs[i].op, conc.reqs[i].err),
           !.reqs[i].sent = CallbackSends(conc.reqs[i].op, conc.reqs[i].err),
           !.done = Append(@, i)]
    /\ UNCHANGED <<fs, last, sc, ui>>

NextConcurrent ==
    \/ ConcPost
    \/ \E i \in DOMAIN conc.reqs : ConcOpen(i)
    \/ \E i \in DOMAIN conc.reqs : ConcWrite(i)
    \/ \E i \in DOMAIN conc.reqs : ConcUnlink(i)
    \/ \E i \in DOMAIN conc.reqs : ConcCallback(i)

SpecConcurrent == InitConcurrent /\ [][NextConcurrent]_vars

(* ------------------------------------------------------------------ *)
(* Requests of every route, from arrival to response                   *)
(* ------------------------------------------------------------------ *)

\* The bodies of the requests: complete, without filename, without content.
LiveBodies ==
    { [filename |-> <<"a">>, content |-> <<1>>],
      [filename |-> Undefined, content |-> <<1>>],
      [filename |-> <<"a">>, content |-> UndefinedContent] }

LiveBatches == {b \in Batches : Len(b) = 1 /\ b[1].name = <<"a">>}

InitLive ==
    /\ fs = Startup(DiskWithoutRoot)
    /\ last = NoRequest
    /\ sc = Idle
    /\ conc = [before |-> fs, reqs |-> <<>>, done |-> <<>>]
    /\ ui = NoAction

\* A /create, /edit or /delete arrives.  A handler that throws (no
\* filename, no content) is answered by the framework before the handler
\* returns; otherwise the fs call is under way.
LivePost ==
    /\ Len(conc.reqs) < MaxInflight
    /\ \E op \in {"create", "edit", "delete"}, body \in LiveBodies :
          /\ op = "delete" => body.content = <<1>>
          /\ IF body.filename = Undefined
                \/ (op # "delete" /\ body.content = UndefinedContent)
             THEN conc' = [conc EXCEPT
                      !.reqs = Append(@,
                          [InFlight(op, <<"">>, body.content) EXCEPT
                              !.filename = body.filename,
                              !.stage = "answered",
                              !.res = Thrown(fs).res,
                              !.sent = <<Thrown(fs).res>>]),
                      !.done = Append(@, Len(conc.reqs) + 1)]
             ELSE conc' = [conc EXCEPT
                      !.reqs = Append(@, InFlight(op, body.filename, body.content))]
    /\ UNCHANGED <<fs, last, sc, ui>>

\* An /upload arrives: upload.array('files') starts on the parts, which
\* the request record carries as its content.
LivePostUpload ==
    /\ Len(conc.reqs) < MaxInflight
    /\ \E batch \in LiveBatches :
          conc' = [conc EXCEPT
              !.reqs = Append(@, InFlight("upload", <<"">>, batch))]
    /\ UNCHANGED <<fs, last, sc, ui>>

\* The upload middleware has stored the parts or given up; res is what the
\* route handler, or the framework on the middleware's error, will answer.
LiveStore(i) ==
    /\ conc.reqs[i].stage = "queued"
    /\ conc.reqs[i].op = "upload"
    /\ \E failAt \in 0..Len(conc.reqs[i].content) :
          LET o == Upload(fs, conc.reqs[i].content, failAt)
          IN  /\ fs' = o.fs
              /\ conc' = [conc EXCEPT !.reqs[i].stage = "stored",
                                      !.reqs[i].res = o.res]
    /\ UNCHANGED <<last, sc, ui>>

\* The response to an upload is sent.
LiveUploadAnswer(i) ==
    /\ conc.reqs[i].stage = "stored"
    /\ conc' = [conc EXCEPT !.reqs[i].stage = "answered",
                            !.reqs[i].sent = <<conc.reqs[i].res>>,
                            !.done = Append(@, i)]
    /\ UNCHANGED <<fs, last, sc, ui>>

\* A step of a request under way.
LiveStep(i) ==
    \/ ConcOpen(i)
    \/ ConcWrite(i)
    \/ ConcUnlink(i)
    \/ ConcCallback(i)
    \/ LiveStore(i)
    \/ LiveUploadAnswer(i)

\* Some request under way takes a step.
LiveProgress == \E i \in DOMAIN conc.reqs : LiveStep(i)

NextLive ==
    \/ LivePost
    \/ LivePostUpload
    \/ \E i \in DOMAIN conc.reqs : ConcOpen(i)
    \/ \E i \in DOMAIN conc.reqs : ConcWrite(i)
    \/ \E i \in DOMAIN conc.reqs : ConcUnlink(i)
    \/ \E i \in DOMAIN conc.reqs : ConcCallback(i)
    \/ \E i \in DOMAIN conc.reqs : LiveStore(i)
    \/ \E i \in DOMAIN conc.reqs : LiveUploadAnswer(i)

\* The file system and the upload middleware carry out what they were
\* handed and call back: while a request is under way, some step is taken.
SpecLive ==
    /\ InitLive
    /\ [][NextLive]_vars
    /\ WF_vars(LiveProgress)

\* The route of request r handled as a whole on the tree f.
Serve(f, r) ==
    IF r.op = "create" THEN Create(f, r.filename, r.content, "ok")
    ELSE IF r.op = "edit" THEN Edit(f, r.filename, r.content, "ok")
    ELSE Delete(f, r.filename, "ok")

\* The requests reqs handled one after another in the order ord, from the
\* k-th of it on: the tree left behind and the response to each request.
RECURSIVE RunInOrder(_, _, _, _, _)
RunInOrder(f, reqs, ord, k, answers) ==
    IF k > Len(ord) THEN [fs |-> f, res |-> answers]
    ELSE LET o == Serve(f, reqs[ord[k]])
         IN  RunInOrder(o.fs, reqs, ord, k + 1,
                        [answers EXCEPT ![ord[k]] = o.res])

(* ------------------------------------------------------------------ *)
(* The browser form                                                    *)
(* ------------------------------------------------------------------ *)

\* Whether the request reaches the server and its response the browser.
Networks == {"ok", "down"}

\* axios.post(...): the promise is fulfilled by a response with a 2xx
\* status and rejected by any other response and when there is none.
AxiosSettles(net, res) ==
    IF net = "ok" /\ res.status >= 200 /\ res.status < 300
    THEN "resolved" ELSE "rejected"

\* Faulty variant of HandlerAlerts: without await the success alert
\* follows the call whatever becomes of the request.
HandlerAlertsNoAwait(op, settled) == <<[kind |-> "success", op |-> op]>>

\* try { await request; alert(success) } catch (err) { alert(failure) }:
\* the alerts an action of the form shows, in order.
HandlerAlerts(op, settled) ==
    IF settled = "resolved"
    THEN <<[kind |-> "success", op |-> op]>>
    ELSE <<[kind |-> "failure", op |-> op]>>

\* The form has sent the request of op and awaits it.
Awaiting(op, net) == [stage |-> "awaiting", op |-> op, net |-> net, alerts |-> <<>>]

\* What the request does on its way: handled by the server with outcome o,
\* or lost.
Sent(op, filename, content, batch, o, net) ==
    IF net = "ok"
    THEN /\ fs' = o.fs
         /\ last' = Handled(op, filename, content, batch, fs, o)
    ELSE /\ fs' = fs
         /\ last' = [NoRequest EXCEPT !.op = op, !.filename = filename,
                                      !.content = content, !.batch = batch,
                                      !.before = fs]

\* handleCreate: filename and content are the strings of the form's fields.
HandleCreate ==
    /\ ui.stage = "idle"
    /\ \E filename \in Filenames, content \in Contents, io \in IOOutcomes,
          net \in Networks :
          /\ Sent("create", filename, content, <<>>,
                  Create(fs, filename, content, io), net)
          /\ ui' = Awaiting("create", net)
    /\ UNCHANGED <<sc, conc>>

HandleEdit ==
    /\ ui.stage = "idle"
    /\ \E filename \in Filenames, content \in Contents, io \in IOOutcomes,
          net \in Networks :
          /\ Sent("edit", filename, content, <<>>,
                  Edit(fs, filename, content, io), net)
          /\ ui' = Awaiting("edit", net)
    /\ UNCHANGED <<sc, conc>>

HandleDelete ==
    /\ ui.stage = "idle"
    /\ \E filename \in Filenames, io \in IOOutcomes, net \in Networks :
          /\ Sent("delete", filename, <<>>, <<>>, Delete(fs, filename, io), net)
          /\ ui' = Awaiting("delete", net)
    /\ UNCHANGED <<sc, conc>>

HandleUpload ==
    /\ ui.stage = "idle"
    /\ \E batch \in Batches, net \in Networks :
          \E failAt \in 0..Len(batch) :
              /\ Sent("upload", <<"">>, <<>>, batch, Upload(fs, batch, failAt), net)
              /\ ui' = Awaiting("upload", net)
    /\ UNCHANGED <<sc, conc>>

\* The awaited promise settles and the handler shows its alert.
Settle ==
    /\ ui.stage = "awaiting"
    /\ ui' = [ui EXCEPT !.stage = "shown",
                        !.alerts = HandlerAlerts(ui.op, AxiosSettles(ui.net, last.res))]
    /\ UNCHANGED <<fs, last, sc, conc>>

\* The user closes the alert; the form is ready for the next action.
Dismiss ==
    /\ ui.stage = "shown"
    /\ ui' = NoAction
    /\ last' = NoRequest
    /\ UNCHANGED <<fs, sc, conc>>

NextClient ==
    HandleCreate \/ HandleEdit \/ HandleDelete \/ HandleUpload \/ Settle \/ Dismiss

SpecClient == Init /\ [][NextClient]_vars

(* ------------------------------------------------------------------ *)
(* Properties                                                          *)
(* ------------------------------------------------------------------ *)

\* A request has been handled and its response is at hand.
Answered == last.op # "none"

\* The path the filename of the last /create, /edit or /delete resolves to.
Target == PathJoin(BASE_DIR, last.filename)

\* The validation the design asks for: the resolved path stays in the root.
PassesValidation(name) == IsInside(BASE_DIR, PathJoin(BASE_DIR, name))

\* The answer the design asks for when validation fails.
IsInvalidPathError(res) == res.status # 200 /\ res.text = "InvalidPathError"

\* The name has a ".." segment, or starts with "/".
HasDotDot(name) == \E i \in 1..Len(name) : name[i] = ".."
IsAbsoluteName(name) == Len(name) > 1 /\ name[1] = ""

\* The filenames the client supplied in the last request.
SuppliedNames ==
    IF last.op = "upload"
    THEN {last.batch[i].name : i \in 1..Len(last.batch)}
    ELSE {last.filename} \ {Undefined}

\* C1: for every Upload, Create, Edit and Delete request, whatever filename
\* it carries, each path on which a write or unlink was performed lies inside
\* the storage root BASE_DIR.
C1_ConfinedToRoot ==
    Answered => \A p \in last.paths : IsInside(BASE_DIR, p)

\* C2: a Create, Edit or Delete whose filename contains a "../" sequence or
\* starts with an absolute-path prefix is rejected with InvalidPathError and
\* leaves every file, inside and outside the root, as it was.
C2_TraversalRejected ==
    ( /\ last.op \in {"create", "edit", "delete"}
      /\ HasDotDot(last.filename) \/ IsAbsoluteName(last.filename) )
    => ( IsInvalidPathError(last.res) /\ fs = last.before )

\* C3: a filename that fails path validation is rejected, and no operation
\* stores or removes a file under a name other than the one the client
\* supplied: when it succeeds, the paths it wrote or unlinked are the root
\* followed by a supplied name, segment for segment.
C3_NeverSanitized ==
    Answered =>
        /\ (\E n \in SuppliedNames : ~PassesValidation(n))
               => IsInvalidPathError(last.res)
        /\ last.res.status = 200
               => \A p \in last.paths : \E n \in SuppliedNames : p = BASE_DIR \o n

\* What route op does with the single filename n on the tree f.
RouteOutcome(op, f, n) ==
    CASE op = "upload" -> Upload(f, <<[name |-> n, bytes |-> <<1>>]>>, 0)
      [] op = "create" -> Create(f, n, <<1>>, "ok")
      [] op = "edit" -> Edit(f, n, <<1>>, "ok")
      [] op = "delete" -> Delete(f, n, "ok")

Routes == {"upload", "create", "edit", "delete"}

\* The route turns the name down before any file-system call.
RouteRejects(op, f, n) ==
    LET o == RouteOutcome(op, f, n)
    IN  o.paths = {} /\ o.res.status # 200

\* C4: path validation is the same in the four routes: a filename is either
\* rejected by all of them, or accepted by all of them and resolved to one
\* and the same path beneath the storage root.
C4_SameValidation ==
    Answered =>
        \A n \in SuppliedNames :
            \/ \A op \in Routes : RouteRejects(op, last.before, n)
            \/ \E t \in {PathJoin(BASE_DIR, n), FinalPath(n)} :
                   /\ IsInside(BASE_DIR, t)
                   /\ \A op \in Routes :
                          /\ ~RouteRejects(op, last.before, n)
                          /\ RouteOutcome(op, last.before, n).paths = {t}

\* C5: after a Create that reports success the file of that name holds
\* exactly the supplied content, whether or not a file was there before.
C5_CreateRoundTrip ==
    (last.op = "create" /\ last.res.status = 200)
        => Node(fs, Target) = File(last.content)

\* A Create has succeeded on a file that held something else.
C5_Witness ==
    /\ last.op = "create" /\ last.res.status = 200
    /\ PassesValidation(last.filename)
    /\ Node(last.before, Target).kind = "file"
    /\ Node(last.before, Target).data # last.content
    /\ Node(last.before, Target).data # <<>>

\* C6: a successful Edit with content B of a file holding A leaves the file
\* holding exactly B, nothing of A appended or merged, also when B is shorter
\* than A.
C6_EditReplaces ==
    ( /\ last.op = "edit" /\ last.res.status = 200
      /\ Node(last.before, Target).kind = "file" )
        => /\ Node(fs, Target).kind = "file"
           /\ Node(fs, Target).data = last.content

\* An Edit has succeeded with a content shorter than the one it replaced.
C6_Witness ==
    /\ last.op = "edit" /\ last.res.status = 200
    /\ Node(last.before, Target).kind = "file"
    /\ Len(last.content) > 0
    /\ Len(last.content) < Len(Node(last.before, Target).data)

\* The filename names something stored in the root of the tree f.
NamesStored(f, name) ==
    /\ IsInside(BASE_DIR, PathJoin(BASE_DIR, name))
    /\ Node(f, PathJoin(BASE_DIR, name)).kind # "none"

\* The failure that says the file is not there: the path has no entry
\* (ENOENT) or runs through a regular file (ENOTDIR).
IsNotFoundError(res) ==
    res.status # 200 /\ res.kind = "error" /\ res.text \in {"ENOENT", "ENOTDIR"}

\* C7: a Delete whose filename names no file in the storage root fails with
\* a not-found error and leaves the files and their contents unchanged.
C7_DeleteMissing ==
    (last.op = "delete" /\ ~NamesStored(last.before, last.filename))
        => (IsNotFoundError(last.res) /\ fs = last.before)

\* The filename resolves to a direct child of the storage root.
ValidName(name) ==
    /\ IsInside(BASE_DIR, PathJoin(BASE_DIR, name))
    /\ Len(PathJoin(BASE_DIR, name)) = Len(BASE_DIR) + 1

\* C8: in the sequence Create(f, c1), Edit(f, c2), Delete(f), Delete(f) on a
\* valid filename f, each sent after the answer to the one before: after the
\* Create f exists with c1, after the Edit f holds c2, the first Delete
\* reports success and f is gone, and the second Delete reports not found.
C8_Scenario ==
    ValidName(sc.f) =>
        /\ sc.step >= 1 =>
               sc.obs[1] = [res |-> JsonMessage("File created successfully!"),
                            node |-> File(sc.c1)]
        /\ sc.step >= 2 =>
               sc.obs[2] = [res |-> JsonMessage("File edited successfully!"),
                            node |-> File(sc.c2)]
        /\ sc.step >= 3 =>
               sc.obs[3] = [res |-> JsonMessage("File deleted successfully!"),
                            node |-> None]
        /\ sc.step >= 4 =>
               sc.obs[4] = [res |-> JsonError("ENOENT"), node |-> None]

\* The script has run to its end on a valid filename, with two contents.
C8_Witness ==
    /\ ValidName(sc.f)
    /\ sc.step = 4
    /\ sc.c1 # sc.c2
    /\ IsNotFoundError(sc.obs[4].res)

\* The parts of the batch are stored under pairwise different names.
DistinctNames(batch) ==
    \A i, j \in 1..Len(batch) :
        originalname(batch[i].name) = originalname(batch[j].name) => i = j

\* C9: after an Upload that reports success, every part of a batch with
\* distinct names is in the storage root under its originalname with exactly
\* its bytes, created if it was absent and overwritten if it was present.
C9_UploadStoresAll ==
    (last.op = "upload" /\ last.res.status = 200 /\ DistinctNames(last.batch))
        => \A i \in 1..Len(last.batch) :
               Node(fs, BASE_DIR \o <<originalname(last.batch[i].name)>>)
                   = File(last.batch[i].bytes)

\* An upload of two parts has succeeded, one overwriting a file that held
\* something else and one creating a file.
C9_Witness ==
    /\ last.op = "upload" /\ last.res.status = 200
    /\ Len(last.batch) = 2 /\ DistinctNames(last.batch)
    /\ \E i, j \in 1..2 :
           LET pi == BASE_DIR \o <<originalname(last.batch[i].name)>>
               pj == BASE_DIR \o <<originalname(last.batch[j].name)>>
           IN  /\ Node(last.before, pi).kind = "file"
               /\ Node(last.before, pi).data # last.batch[i].bytes
               /\ Node(last.before, pj).kind = "none"

\* C10: Create and Edit behave alike: on any tree and any filename and
\* content they fail or succeed together, touch the same path and leave the
\* same tree, the success message apart; and an Edit of a file that does not
\* exist creates it.
C10_CreateEditSame ==
    (last.op \in {"create", "edit"}) =>
        /\ \A io \in IOOutcomes :
               LET c == Create(last.before, last.filename, last.content, io)
                   e == Edit(last.before, last.filename, last.content, io)
               IN  /\ c.fs = e.fs
                   /\ c.paths = e.paths
                   /\ c.res.status = e.res.status
                   /\ c.res.kind = e.res.kind
                   /\ c.res.status # 200 => c.res = e.res
        /\ \E io \in IOOutcomes :
               LET o == IF last.op = "create"
                        THEN Create(last.before, last.filename, last.content, io)
                        ELSE Edit(last.before, last.filename, last.content, io)
               IN  o.fs = fs /\ o.res = last.res
        /\ ( /\ last.op = "edit"
             /\ ValidName(last.filename)
             /\ last.content \in Contents
             /\ Node(last.before, Target).kind = "none"
             /\ last.res.text # "EACCES" )
               => (last.res.status = 200 /\ Node(fs, Target) = File(last.content))

\* An Edit of a file that did not exist has succeeded.
C10_Witness ==
    /\ last.op = "edit" /\ last.res.status = 200
    /\ ValidName(last.filename)
    /\ Node(last.before, Target).kind = "none"
    /\ Node(fs, Target) = File(last.content)

\* C11: every error raised while a request is handled, also one raised
\* before the file-system call is issued (a body without filename or without
\* content), ends in a failure response of the form { error: string }; the
\* process goes on serving.
C11_ErrorsStructured ==
    (Answered /\ last.res.status # 200) => last.res.kind = "error"

\* The last request failed validation of its input in the design's terms:
\* a field is missing, or the filename has a ".." segment, is absolute or
\* resolves outside the root.
IsBadInput ==
    /\ last.op \in {"create", "edit", "delete"}
    /\ \/ last.filename = Undefined
       \/ last.op # "delete" /\ last.content = UndefinedContent
       \/ HasDotDot(last.filename)
       \/ IsAbsoluteName(last.filename)
       \/ ~PassesValidation(last.filename)

\* Two responses a client cannot tell apart by status or form.
SameClass(r1, r2) == r1.status = r2.status /\ r1.kind = r2.kind

\* C12: a failure response tells bad input (invalid path, malformed request)
\* from a storage failure (I/O error): a request that fails for bad input
\* never gets a response of the status and form that a request failing on a
\* refused write gets.
C12_FailureKindsDistinct ==
    (Answered /\ last.res.status # 200 /\ IsBadInput) =>
        \A n \in Filenames, c \in Contents :
            LET o == Create(last.before, n, c, "EACCES")
            IN  o.res.text = "EACCES" => ~SameClass(o.res, last.res)

\* The handler of the last request reached its file-system call.
CallIssued ==
    /\ last.filename # Undefined
    /\ last.op = "delete" \/ last.content # UndefinedContent

\* The file-system call of the last request and the handler's outcome, had
\* the environment's part been io.
FsCallWith(io) ==
    IF last.op = "delete" THEN Unlink(last.before, Target, io)
    ELSE WriteFile(last.before, Target, last.content, io)

HandlerWith(io) ==
    CASE last.op = "create" -> Create(last.before, last.filename, last.content, io)
      [] last.op = "edit" -> Edit(last.before, last.filename, last.content, io)
      [] last.op = "delete" -> Delete(last.before, last.filename, io)

\* io is what the environment did in the last request.
WasIO(io) == HandlerWith(io).fs = fs /\ HandlerWith(io).res = last.res

\* C13: a Create, Edit or Delete is answered 200 with a message exactly when
\* its write or unlink succeeded, and 500 with an error exactly when it
\* failed.
C13_ResponseMatchesEffect ==
    (last.op \in {"create", "edit", "delete"}) =>
        /\ CallIssued =>
               /\ \E io \in IOOutcomes : WasIO(io)
               /\ \A io \in IOOutcomes :
                      WasIO(io) =>
                          /\ FsCallWith(io).err = ""
                                 <=> (last.res.status = 200 /\ last.res.kind = "message")
                          /\ FsCallWith(io).err # ""
                                 <=> last.res = JsonError(FsCallWith(io).err)
                          /\ fs = FsCallWith(io).fs
        /\ ~CallIssued =>
               /\ last.res.status # 200
               /\ last.res.kind # "error"
               /\ fs = last.before

\* A Create of an existing file was refused by the environment and answered
\* with the error.
C13_Witness ==
    /\ last.op = "create"
    /\ last.res = JsonError("EACCES")
    /\ Node(last.before, Target).kind = "file"
    /\ fs = last.before

\* C14: a successful Upload answers with a result that names the number of
\* files written, the number of parts of the batch: the answers to two
\* successful uploads of different sizes differ.
C14_UploadNamesCount ==
    (last.op = "upload" /\ last.res.status = 200) =>
        \A other \in Batches :
            LET o == Upload(last.before, other, 0)
            IN  (o.res.status = 200 /\ Len(other) # Len(last.batch))
                    => o.res # last.res

\* The last part of the batch stored under the originalname of part i.
LastOfName(batch, i) ==
    CHOOSE j \in 1..Len(batch) :
        /\ originalname(batch[j].name) = originalname(batch[i].name)
        /\ \A k \in 1..Len(batch) :
               originalname(batch[k].name) = originalname(batch[i].name) => k <= j

\* C15: an Upload reports success only if every part of the batch was
\* written, and when the write of a part fails the response is a failure of
\* the form { error: string } that records the failure.
C15_UploadFailureReported ==
    (last.op = "upload") =>
        /\ last.res.status = 200 =>
               \A i \in 1..Len(last.batch) :
                   Node(fs, BASE_DIR \o <<originalname(last.batch[i].name)>>)
                       = File(last.batch[LastOfName(last.batch, i)].bytes)
        /\ last.res.status # 200 =>
               (last.res.kind = "error" /\ last.res.text # "")

\* The paths that hold something before or after the last request, and
\* those whose entry it changed.
AllPaths == (DOMAIN fs) \cup (DOMAIN last.before)
Changed(p) == Node(fs, p) # Node(last.before, p)

\* C16: a Create, Edit or Delete on a filename changes at most the entry that
\* filename resolves to, whether it succeeds or fails; and a file is created
\* or overwritten only by Create, Edit or Upload and removed only by Delete.
C16_Frame ==
    Answered =>
        /\ last.op \in {"create", "edit", "delete"} =>
               \A p \in AllPaths : Changed(p) => p = Target
        /\ \A p \in AllPaths :
               (Changed(p) /\ Node(fs, p).kind = "file")
                   => last.op \in {"create", "edit", "upload"}
        /\ \A p \in AllPaths :
               (Changed(p) /\ Node(fs, p).kind = "none") => last.op = "delete"

\* C19: the storage root is a directory before the first request is handled
\* and after every request: no request removes it or replaces it by a file,
\* also not a Delete or Create whose filename ("" or ".") resolves to the
\* root itself.
C19_RootStays == Node(fs, BASE_DIR) = Dir

\* A Delete whose filename resolves to the root itself has been answered.
C19_Witness ==
    /\ last.op = "delete"
    /\ last.filename \in {<<"">>, <<".">>}
    /\ last.paths = {BASE_DIR}
    /\ last.res = JsonError("EISDIR")

\* C20: the storage root stays flat: whatever was requested, everything
\* beneath the root is a regular file that is its direct child, no request
\* creates a directory (sub/a produces no nested entry), and every file a
\* request stores is a direct child of the root.
C20_FlatRoot ==
    /\ \A p \in DOMAIN fs :
           (IsInside(BASE_DIR, p) /\ p # BASE_DIR)
               => (Len(p) = Len(BASE_DIR) + 1 /\ fs[p].kind = "file")
    /\ Answered =>
           \A p \in AllPaths :
               (Node(fs, p).kind = "dir") <=> (Node(last.before, p).kind = "dir")
    /\ Answered =>
           \A p \in AllPaths :
               (Changed(p) /\ Node(fs, p).kind = "file")
                   => (IsInside(BASE_DIR, p) /\ Len(p) = Len(BASE_DIR) + 1)

\* Every request in flight has been answered, and there are several.
AllAnswered ==
    /\ Len(conc.reqs) >= 2
    /\ \A i \in DOMAIN conc.reqs : conc.reqs[i].stage = "answered"

\* The request answered last.
LastDone == conc.reqs[conc.done[Len(conc.done)]]

\* C17: when requests on one filename have been in flight together and all
\* are answered, the file is absent or holds exactly the content of one of
\* them, and it is what the request answered last left: absent after a
\* successful Delete, that request's content after a successful Create or
\* Edit.
C17_LastWins ==
    (AllAnswered /\ \A i, j \in DOMAIN conc.reqs :
                        conc.reqs[i].filename = conc.reqs[j].filename)
        => LET p == conc.reqs[1].path
           IN  /\ Node(fs, p) \in
                      {None} \cup {File(conc.reqs[i].content) :
                                      i \in {j \in DOMAIN conc.reqs :
                                                conc.reqs[j].op # "delete"}}
               /\ LastDone.res.status = 200
                      => Node(fs, p) = IF LastDone.op = "delete" THEN None
                                       ELSE File(LastDone.content)

\* The orders in which n requests can be handled one after another.
Orders(n) == {ord \in [1..n -> 1..n] : \A i, j \in 1..n : ord[i] = ord[j] => i = j}

\* The requests answered together left what handling them one after
\* another leaves, in whatever order: the same tree and, for each request,
\* the same response.
AsOneAfterAnother ==
    \A ord \in Orders(Len(conc.reqs)) :
        LET s == RunInOrder(conc.before, conc.reqs, ord, 1,
                            [i \in DOMAIN conc.reqs |-> NoRequest.res])
        IN  /\ fs = s.fs
            /\ \A i \in DOMAIN conc.reqs : conc.reqs[i].res = s.res[i]

\* C18, as stated: requests in flight together whose filenames differ do
\* not interfere: whatever the interleaving of their file-system steps and
\* callbacks, the responses and the tree are those of handling them one
\* after another, in any order.
C18_DifferentFilenames ==
    (AllAnswered /\ \A i, j \in DOMAIN conc.reqs :
                        i # j => conc.reqs[i].filename # conc.reqs[j].filename)
        => AsOneAfterAnother

\* C18, amended: the same for requests whose filenames resolve to paths of
\* which none is another or lies beneath another.
C18_ApartTargets ==
    (AllAnswered /\ \A i, j \in DOMAIN conc.reqs :
                        i # j => ~IsInside(conc.reqs[i].path, conc.reqs[j].path))
        => AsOneAfterAnother

\* Two writes to different files have been in flight together, the second
\* posted was answered first, and both succeeded.
C18_Witness ==
    /\ AllAnswered
    /\ conc.done[1] = 2
    /\ \A i, j \in DOMAIN conc.reqs :
           i # j => ~IsInside(conc.reqs[i].path, conc.reqs[j].path)
    /\ \A i \in DOMAIN conc.reqs :
           conc.reqs[i].op # "delete" /\ conc.reqs[i].res.status = 200

\* The failure that says a file-system call failed for another reason than
\* a missing file or a refused name.
IsIOError(res) ==
    /\ res.status # 200
    /\ res.kind = "error"
    /\ res.text # ""
    /\ ~IsNotFoundError(res)
    /\ ~IsInvalidPathError(res)

\* C21: a Delete whose filename resolves to a directory, the storage root
\* itself for instance, fails with an I/O error, which is neither the
\* not-found nor the invalid-path error, and removes nothing: the tree, the
\* storage root with it, is as before.
C21_DeleteDirectory ==
    (last.op = "delete" /\ last.filename # Undefined
        /\ Node(last.before, Target).kind = "dir")
        => (IsIOError(last.res) /\ fs = last.before)

\* A Delete of the storage root, which holds a file, has been answered.
C21_Witness ==
    /\ last.op = "delete"
    /\ Target = BASE_DIR
    /\ \E p \in DOMAIN last.before :
           p # BASE_DIR /\ IsInside(BASE_DIR, p) /\ last.before[p].kind = "file"
    /\ last.res.status = 500
    /\ fs = last.before

\* The content of the storage root in the tree f.
RootContent(f) == [p \in {q \in DOMAIN f : IsInside(BASE_DIR, q)} |-> f[p]]

\* The route of the last request handled as a whole on the tree f, the
\* environment's part being io.
HandlerOn(f, io) ==
    CASE last.op = "create" -> Create(f, last.filename, last.content, io)
      [] last.op = "edit" -> Edit(f, last.filename, last.content, io)
      [] last.op = "delete" -> Delete(f, last.filename, io)

\* C22: the gateway keeps nothing between requests: the response to a
\* Create, Edit or Delete and the storage root it leaves depend on the
\* request and on what the storage root held, and on nothing else.  The
\* same request, with the same part of the environment, on any tree whose
\* storage root holds the same gets the same response and leaves the same
\* storage root.
C22_Stateless ==
    (last.op \in {"create", "edit", "delete"}) =>
        \A f2 \in Stores, io \in IOOutcomes :
            (RootContent(f2) = RootContent(last.before) /\ WasIO(io))
                => /\ HandlerOn(f2, io).res = last.res
                   /\ RootContent(HandlerOn(f2, io).fs) = RootContent(fs)

\* C23: every request that has arrived, of whatever route and also with a
\* body that lacks filename or content, is answered in the end, given that
\* the file system calls back.
C23_EveryRequestAnswered ==
    \A i \in 1..MaxInflight :
        (Len(conc.reqs) >= i)
            ~> (Len(conc.reqs) >= i /\ conc.reqs[i].stage = "answered")

\* A request without filename, a delete of a missing file and a failed
\* upload have been answered.
C23_Witness ==
    /\ \E i \in DOMAIN conc.reqs :
           conc.reqs[i].filename = Undefined /\ conc.reqs[i].stage = "answered"
               /\ conc.reqs[i].res.status = 500
    /\ \E i \in DOMAIN conc.reqs :
           conc.reqs[i].op \in {"delete", "upload"}
               /\ conc.reqs[i].filename # Undefined
               /\ conc.reqs[i].stage = "answered"
               /\ conc.reqs[i].res.status = 500

\* C24: a request is answered once: for a request that has been answered
\* the server has sent one response, the 500 error and no success message
\* when the fs call failed, the success message when it did not; nothing
\* is sent before, and no request is answered a second time.
C24_OneResponse ==
    /\ \A i \in DOMAIN conc.reqs :
           LET r == conc.reqs[i]
           IN  IF r.stage = "answered"
               THEN /\ Len(r.sent) = 1
                    /\ r.sent[1] = r.res
                    /\ r.err # "" => (r.res.status = 500 /\ r.res.kind = "error")
                    /\ r.err = "" => (r.res.status = 200 /\ r.res.kind = "message")
               ELSE r.sent = <<>>
    /\ \A k, l \in DOMAIN conc.done : conc.done[k] = conc.done[l] => k = l

\* A write that failed and a delete that succeeded have been answered.
C24_Witness ==
    /\ \E i \in DOMAIN conc.reqs :
           conc.reqs[i].op \in {"create", "edit"} /\ conc.reqs[i].err # ""
               /\ conc.reqs[i].stage = "answered"
    /\ \E i \in DOMAIN conc.reqs :
           conc.reqs[i].op = "delete" /\ conc.reqs[i].err = ""
               /\ conc.reqs[i].stage = "answered"

\* The paths request r writes or removes.
Targets(r) ==
    IF r.op = "upload"
    THEN {FinalPath(r.content[k].name) : k \in DOMAIN r.content}
    ELSE {r.path}

\* No other request has touched what request i works on: its file-system
\* work has not begun, or its handler threw before any, or it is on paths
\* apart from those of i.
Undisturbed(i) ==
    \A j \in DOMAIN conc.reqs :
        \/ j = i
        \/ conc.reqs[j].stage = "queued"
        \/ conc.reqs[j].filename = Undefined
        \/ conc.reqs[j].op # "upload" /\ conc.reqs[j].content = UndefinedContent
        \/ \A p \in Targets(conc.reqs[i]), q \in Targets(conc.reqs[j]) :
               ~IsInside(p, q) /\ ~IsInside(q, p)

\* What the success of request r promises about the tree f.
EffectApplied(f, r) ==
    IF r.op = "delete" THEN Node(f, r.path) = None
    ELSE IF r.op = "upload"
    THEN \A k \in DOMAIN r.content :
             Node(f, FinalPath(r.content[k].name))
                 = File(r.content[LastOfName(r.content, k)].bytes)
    ELSE Node(f, r.path) = File(r.content)

C26_Idempotence ==
    (last.op \in {"create", "edit", "delete"} /\ last.res.status = 200) =>
        LET again == HandlerOn(fs, "ok")
        IN  /\ again.fs = fs
            /\ last.op \in {"create", "edit"} => again.res = last.res
            /\ last.op = "delete" => again.res.status # 200

\* A Create that changed the file it names has been answered with success.
C26_Witness ==
    /\ last.op = "create"
    /\ last.res.status = 200
    /\ Node(last.before, Target).kind = "file"
    /\ Node(fs, Target) # Node(last.before, Target)

\* C27: an action of the browser form shows one alert, once its request
\* has settled and not before: the success alert of the action if the
\* server answered with a 2xx status, the failure alert of the action if it
\* answered with another status or the request got no answer.
C27_AlertMatchesOutcome ==
    IF ui.stage = "shown"
    THEN /\ Len(ui.alerts) = 1
         /\ ui.alerts[1].op = ui.op
         /\ ui.alerts[1].kind = "success"
                <=> (ui.net = "ok" /\ last.res.status = 200)
         /\ ui.alerts[1].kind = "failure"
                <=> (ui.net = "down" \/ last.res.status # 200)
    ELSE ui.alerts = <<>>

\* The failure alert is up after a request the server answered 500.
C27_Witness ==
    /\ ui.stage = "shown"
    /\ ui.net = "ok"
    /\ last.res.status = 500
    /\ ui.alerts = <<[kind |-> "failure", op |-> last.op]>>

====
